---- MODULE Spec2Model ----
(***************************************************************************)
(* Candlestick chart layout of finviewer (src/src/chart_widget.rs).        *)
(*                                                                         *)
(* One paint pass of ChartWidget: the widget is built from the chart data  *)
(* and the paint context's size, the two axes are stroked, y_axis_ticks()  *)
(* is evaluated and drawn, then candles() is evaluated and drawn.          *)
(*                                                                         *)
(* f64 values are modelled as exact rationals n/d extended with NaN and    *)
(* +/-Infinity, so that a division by a zero range yields what IEEE-754    *)
(* yields.  Rounding error of the binary representation is not modelled.   *)
(***************************************************************************)
EXTENDS Integers, Sequences, FiniteSets, TLC

\* data, ctx_size     the Chart and the ctx.size() handed to paint
\* bars, size          the fields of the ChartWidget that paint builds
\* pc                  the position of paint: idle, ticks, candles, done,
\*                     or panicked
\* axes                the x-axis and y-axis lines stroked
\* drawn_ticks         the AxisTicks stroked, in the order y_axis_ticks returns
\* drawn_candles       the Candles drawn, in the order candles returns
\* price_range_used    the PriceRange of the latest y_axis_ticks or candles
\* closest_tick_size   the tick increment y_axis_ticks chose
\* rendered            the visible_bars of the latest y_axis_ticks or candles
VARIABLES data, ctx_size, bars, size, pc, axes, drawn_ticks, drawn_candles,
          price_range_used, closest_tick_size, rendered

vars == <<data, ctx_size, bars, size, pc, axes, drawn_ticks, drawn_candles,
          price_range_used, closest_tick_size, rendered>>

(***************************************************************************)
(* f64 arithmetic                                                          *)
(***************************************************************************)
Abs(x) == IF x < 0 THEN -x ELSE x

Sgn(x) == IF x < 0 THEN -1 ELSE IF x > 0 THEN 1 ELSE 0

RECURSIVE Gcd(_, _)
Gcd(a, b) == IF b = 0 THEN a ELSE Gcd(b, a % b)

\* the finite value n/d in lowest terms with a positive denominator
Fin(n, d) ==
    LET g == Gcd(Abs(n), Abs(d))
        s == IF d < 0 THEN -1 ELSE 1
    IN  [k |-> "fin", n |-> (s * n) \div g, d |-> Abs(d) \div g]

NaN == [k |-> "nan", n |-> 0, d |-> 1]

\* s = 1 is +Infinity, s = -1 is -Infinity
Inf(s) == [k |-> "inf", n |-> s, d |-> 1]

\* `x as f64` of an integer
F(x) == Fin(x, 1)

IsFinite(a) == a.k = "fin"

FSign(a) == Sgn(a.n)

FNeg(a) == IF a.k = "nan" THEN NaN ELSE [a EXCEPT !.n = -a.n]

FAdd(a, b) ==
    IF a.k = "nan" \/ b.k = "nan" THEN NaN
    ELSE IF a.k = "inf" /\ b.k = "inf" THEN (IF a.n = b.n THEN a ELSE NaN)
    ELSE IF a.k = "inf" THEN a
    ELSE IF b.k = "inf" THEN b
    ELSE Fin(a.n * b.d + b.n * a.d, a.d * b.d)

FSub(a, b) == FAdd(a, FNeg(b))

FMul(a, b) ==
    IF a.k = "nan" \/ b.k = "nan" THEN NaN
    ELSE IF a.k = "inf" \/ b.k = "inf"
         THEN (IF FSign(a) * FSign(b) = 0 THEN NaN ELSE Inf(FSign(a) * FSign(b)))
    ELSE Fin(a.n * b.n, a.d * b.d)

\* a zero divisor is +0.0: every zero the layout divides by is a difference
\* x - x, which is +0.0 in round-to-nearest
FDiv(a, b) ==
    IF a.k = "nan" \/ b.k = "nan" THEN NaN
    ELSE IF a.k = "inf"
         THEN (IF b.k = "inf" THEN NaN
               ELSE Inf(IF FSign(b) < 0 THEN -a.n ELSE a.n))
    ELSE IF b.k = "inf" THEN F(0)
    ELSE IF b.n = 0 THEN (IF a.n = 0 THEN NaN ELSE Inf(FSign(a)))
    ELSE Fin(a.n * b.d, a.d * b.n)

\* the `%` of f64 (fmod): the remainder has the sign of the dividend
FRem(a, b) ==
    IF a.k # "fin" \/ b.k = "nan" THEN NaN
    ELSE IF b.k = "inf" THEN a
    ELSE IF b.n = 0 THEN NaN
    ELSE LET x == Abs(a.n) * b.d
             y == Abs(b.n) * a.d
         IN  Fin(Sgn(a.n) * (x % y), a.d * b.d)

FLt(a, b) ==
    IF a.k = "nan" \/ b.k = "nan" THEN FALSE
    ELSE IF a.k = "inf" THEN a.n < 0 /\ ~(b.k = "inf" /\ b.n < 0)
    ELSE IF b.k = "inf" THEN b.n > 0
    ELSE a.n * b.d < b.n * a.d

FGt(a, b) == FLt(b, a)

FEq(a, b) == a.k # "nan" /\ b.k # "nan" /\ a = b

FLe(a, b) == FLt(a, b) \/ FEq(a, b)

FAbs(a) == IF a.k = "nan" THEN NaN ELSE [a EXCEPT !.n = Abs(a.n)]

I32_MAX == 2147483647

\* `x as i32` of an f64: truncation toward zero, saturating, NaN to 0
F64AsI32(a) ==
    IF a.k = "nan" THEN 0
    ELSE IF a.k = "inf" THEN (IF a.n > 0 THEN I32_MAX ELSE -I32_MAX - 1)
    ELSE LET t == Sgn(a.n) * (Abs(a.n) \div a.d)
         IN  IF t > I32_MAX THEN I32_MAX
             ELSE IF t < -I32_MAX - 1 THEN -I32_MAX - 1
             ELSE t

(***************************************************************************)
(* Constants of chart_widget.rs                                            *)
(***************************************************************************)
FONT_SIZE == 14
BAR_WIDTH == 10
BAR_SPACING == 5
X_AXIS_LABELS_PADDING == 20
Y_TICK_SPACING == 50
Y_AXIS_LABELS_PADDING == 40

\* 0.1, 0.5, 1.0, 10.0, 100.0
Y_AXIS_TICK_INCREMENTS == <<Fin(1, 10), Fin(5, 10), F(1), F(10), F(100)>>

GREEN == "38c172"
RED == "dc3030"

(***************************************************************************)
(* Inputs of a paint pass                                                  *)
(***************************************************************************)
MaxBars == 3

\* a price given in tenths
Price(t) == Fin(t, 10)

Bar(o, h, l, c) == [open |-> Price(o), high |-> Price(h), low |-> Price(l), close |-> Price(c)]

\* bullish, bearish, flat (open = high = low = close), wide bullish,
\* negative prices, malformed (low > high)
BarPool ==
    { Bar(1001, 1010, 1000, 1005),
      Bar(1015, 1027, 1008, 1010),
      Bar(1003, 1003, 1003, 1003),
      Bar(990, 1041, 985, 1030),
      Bar(-8, -3, -12, -5),
      Bar(1000, 995, 1005, 1000) }

RECURSIVE SeqsUpTo(_, _)
SeqsUpTo(S, n) ==
    IF n = 0 THEN {<<>>}
    ELSE LET shorter == SeqsUpTo(S, n - 1)
         IN  shorter \cup {Append(s, x) : s \in {t \in shorter : Len(t) = n - 1}, x \in S}

\* bar sequences, newest first
BarSeqs == SeqsUpTo(BarPool, MaxBars)

\* canvas widths and heights, given in half pixels
CanvasWidths == {Fin(w, 2) : w \in {-20, 0, 98, 99, 100, 129, 130, 160, 400}}

CanvasHeights == {Fin(h, 2) : h \in {-100, 0, 40, 400, 600}}

Size(w, h) == [width |-> w, height |-> h]

Reverse(s) == [i \in 1..Len(s) |-> s[Len(s) + 1 - i]]

(***************************************************************************)
(* ChartWidget                                                             *)
(***************************************************************************)
\* self.bars.first().unwrap() panics on an empty bar sequence
price_range_panics(self_bars) == self_bars = <<>>

RECURSIVE price_range_loop(_, _, _, _)
price_range_loop(bs, i, max_price, min_price) ==
    IF i > Len(bs) THEN [lowest |-> min_price, highest |-> max_price]
    ELSE price_range_loop(bs, i + 1,
            IF FGt(bs[i].high, max_price) THEN bs[i].high ELSE max_price,
            IF FLt(bs[i].low, min_price) THEN bs[i].low ELSE min_price)

\* price_range with its seed taken from the oldest bar of the full sequence
price_range_seeded_from_oldest(self_bars, bs) ==
    price_range_loop(bs, 1, self_bars[Len(self_bars)].high, self_bars[Len(self_bars)].low)

\* defined when self_bars is not empty
price_range(self_bars, bs) ==
    price_range_loop(bs, 1, self_bars[1].high, self_bars[1].low)

range(pr) == FSub(pr.highest, pr.lowest)

RECURSIVE visible_bars_loop(_, _, _, _)
visible_bars_loop(self_bars, self_size, i, bars_to_render) ==
    IF i > Len(self_bars) THEN bars_to_render
    ELSE IF Len(bars_to_render) * (BAR_WIDTH + BAR_SPACING)
              > F64AsI32(FSub(FSub(self_size.width, F(Y_AXIS_LABELS_PADDING)),
                              FMul(F(2), F(BAR_SPACING))))
         THEN bars_to_render
         ELSE visible_bars_loop(self_bars, self_size, i + 1,
                                Append(bars_to_render, self_bars[i]))

\* visible_bars without the final reverse()
visible_bars_newest_first(self_bars, self_size) ==
    visible_bars_loop(self_bars, self_size, 1, <<>>)

visible_bars(self_bars, self_size) ==
    Reverse(visible_bars_loop(self_bars, self_size, 1, <<>>))

Line(x0, y0, x1, y1) == [x0 |-> x0, y0 |-> y0, x1 |-> x1, y1 |-> y1]

x_axis(self_size) ==
    Line(F(BAR_SPACING), FSub(self_size.height, F(X_AXIS_LABELS_PADDING)),
         FSub(self_size.width, F(Y_AXIS_LABELS_PADDING)),
         FSub(self_size.height, F(X_AXIS_LABELS_PADDING)))

y_axis(self_size) ==
    Line(FSub(self_size.width, F(Y_AXIS_LABELS_PADDING)), F(BAR_SPACING),
         FSub(self_size.width, F(Y_AXIS_LABELS_PADDING)),
         FSub(self_size.height, F(BAR_SPACING)))

\* tick_is_closer with <= in place of <
tick_is_closer_or_tied(rng, tick_size, approx_num_of_ticks, closest_num_ticks) ==
    FLe(FAbs(FSub(FDiv(rng, tick_size), approx_num_of_ticks)),
        FAbs(FSub(closest_num_ticks, approx_num_of_ticks)))

\* does tick_size bring the number of ticks closer to approx_num_of_ticks
\* than the closest one found so far
tick_is_closer(rng, tick_size, approx_num_of_ticks, closest_num_ticks) ==
    FLt(FAbs(FSub(FDiv(rng, tick_size), approx_num_of_ticks)),
        FAbs(FSub(closest_num_ticks, approx_num_of_ticks)))

RECURSIVE closest_tick_loop(_, _, _, _, _)
closest_tick_loop(i, rng, approx_num_of_ticks, closest_tick, closest_num_ticks) ==
    IF i > Len(Y_AXIS_TICK_INCREMENTS) THEN closest_tick
    ELSE LET tick_size == Y_AXIS_TICK_INCREMENTS[i]
         IN  IF tick_is_closer(rng, tick_size, approx_num_of_ticks, closest_num_ticks)
             THEN closest_tick_loop(i + 1, rng, approx_num_of_ticks,
                                    tick_size, FDiv(rng, tick_size))
             ELSE closest_tick_loop(i + 1, rng, approx_num_of_ticks,
                                    closest_tick, closest_num_ticks)

\* the tick increment chosen for a price range and a canvas height
choose_tick_size(pr, self_size) ==
    closest_tick_loop(1, range(pr), FDiv(self_size.height, F(Y_TICK_SPACING)),
                      Y_AXIS_TICK_INCREMENTS[1],
                      FDiv(range(pr), Y_AXIS_TICK_INCREMENTS[1]))

\* one AxisTick; label.label holds the price that to_string() prints
AxisTick(pr, self_size, scaling, current_y_tick) ==
    LET price_label == FSub(pr.highest, current_y_tick)
        pixel_offset == FMul(current_y_tick, scaling)
        axis_x == FSub(self_size.width, F(Y_AXIS_LABELS_PADDING))
    IN  [tick_line |-> Line(axis_x, pixel_offset, FAdd(axis_x, F(5)), pixel_offset),
         label |-> [label |-> price_label,
                    position |-> <<FAdd(axis_x, F(10)),
                                   FSub(pixel_offset, FDiv(F(FONT_SIZE), F(2)))>>]]

RECURSIVE y_axis_ticks_loop(_, _, _, _, _, _)
y_axis_ticks_loop(pr, self_size, scaling, tick_size, current_y_tick, acc) ==
    IF FGt(FSub(pr.highest, current_y_tick), pr.lowest)
    THEN y_axis_ticks_loop(pr, self_size, scaling, tick_size,
                           FAdd(current_y_tick, tick_size),
                           Append(acc, AxisTick(pr, self_size, scaling, current_y_tick)))
    ELSE acc

\* (self.size.height - X_AXIS_LABELS_PADDING) / price_range.range()
scaling_of(pr, self_size) ==
    FDiv(FSub(self_size.height, F(X_AXIS_LABELS_PADDING)), range(pr))

\* defined when self_bars is not empty; the price range and the tick size
\* are returned beside the ticks so that the pass can be inspected
y_axis_ticks(self_bars, self_size) ==
    LET pr == price_range(self_bars, visible_bars(self_bars, self_size))
        tick_size == choose_tick_size(pr, self_size)
        y_tick_start == FRem(pr.highest, tick_size)
    IN  [price_range |-> pr,
         bars |-> visible_bars(self_bars, self_size),
         closest_tick_size |-> tick_size,
         ticks |-> y_axis_ticks_loop(pr, self_size, scaling_of(pr, self_size),
                                     tick_size, y_tick_start, <<>>)]

\* fill_color with green for close > open only
fill_color_strict(bar) ==
    IF FGt(bar.close, bar.open) THEN GREEN ELSE RED

fill_color(bar) ==
    LET higher_value == IF FGt(bar.close, bar.open) THEN bar.close ELSE bar.open
    IN  IF FEq(higher_value, bar.close) THEN GREEN ELSE RED

\* one Candle; body holds the origin and the size given to Rect::from_origin_size
Candle(pr, scaling, bar, x_position) ==
    LET bar_high == FMul(FSub(pr.highest, bar.high), scaling)
        bar_low == FMul(FSub(pr.highest, bar.low), scaling)
        higher_value == IF FGt(bar.close, bar.open) THEN bar.close ELSE bar.open
        bar_y_top == FMul(FSub(pr.highest, higher_value), scaling)
        lower_value == IF FGt(bar.close, bar.open) THEN bar.open ELSE bar.close
        bar_height == FSub(FMul(FSub(pr.highest, lower_value), scaling), bar_y_top)
    IN  [wick |-> Line(F(x_position), bar_high, F(x_position), bar_low),
         body |-> [origin |-> <<F(x_position - (BAR_WIDTH \div 2)), bar_y_top>>,
                   size |-> <<F(BAR_WIDTH), bar_height>>],
         color |-> fill_color(bar)]

RECURSIVE candles_loop(_, _, _, _, _, _)
candles_loop(pr, scaling, bs, i, x_position, acc) ==
    IF i > Len(bs) THEN acc
    ELSE candles_loop(pr, scaling, bs, i + 1, x_position + BAR_WIDTH + BAR_SPACING,
                      Append(acc, Candle(pr, scaling, bs[i], x_position)))

\* defined when self_bars is not empty
candles(self_bars, self_size) ==
    LET pr == price_range(self_bars, visible_bars(self_bars, self_size))
    IN  [price_range |-> pr,
         bars |-> visible_bars(self_bars, self_size),
         candles |-> candles_loop(pr, scaling_of(pr, self_size),
                                  visible_bars(self_bars, self_size), 1,
                                  BAR_SPACING * 2, <<>>)]

(***************************************************************************)
(* The paint pass                                                          *)
(***************************************************************************)
NoRange == [lowest |-> NaN, highest |-> NaN]

\* Chart::new() .. the data handed to paint, and ChartWidget::empty()
Init ==
    /\ data \in BarSeqs
    /\ ctx_size \in {Size(w, h) : w \in CanvasWidths, h \in CanvasHeights}
    /\ bars = <<>>
    /\ size = Size(F(0), F(0))
    /\ pc = "idle"
    /\ axes = <<>>
    /\ drawn_ticks = <<>>
    /\ drawn_candles = <<>>
    /\ price_range_used = NoRange
    /\ closest_tick_size = NaN
    /\ rendered = <<>>

\* ChartWidget::new(data, ctx.size()) and the two axis strokes
PaintAxes ==
    /\ pc = "idle"
    /\ bars' = data
    /\ size' = ctx_size
    /\ axes' = <<x_axis(ctx_size), y_axis(ctx_size)>>
    /\ pc' = "ticks"
    /\ UNCHANGED <<data, ctx_size, drawn_ticks, drawn_candles, price_range_used,
                   closest_tick_size, rendered>>

\* for tick in widget.y_axis_ticks() { stroke, draw_text }
PaintTicks ==
    /\ pc = "ticks"
    /\ IF price_range_panics(bars)
       THEN /\ pc' = "panicked"
            /\ UNCHANGED <<drawn_ticks, price_range_used, closest_tick_size, rendered>>
       ELSE LET r == y_axis_ticks(bars, size)
            IN  /\ drawn_ticks' = r.ticks
                /\ price_range_used' = r.price_range
                /\ closest_tick_size' = r.closest_tick_size
                /\ rendered' = r.bars
                /\ pc' = "candles"
    /\ UNCHANGED <<data, ctx_size, bars, size, axes, drawn_candles>>

\* for candle in widget.candles() { stroke, fill }
PaintCandles ==
    /\ pc = "candles"
    /\ IF price_range_panics(bars)
       THEN /\ pc' = "panicked"
            /\ UNCHANGED <<drawn_candles, price_range_used, rendered>>
       ELSE LET r == candles(bars, size)
            IN  /\ drawn_candles' = r.candles
                /\ price_range_used' = r.price_range
                /\ rendered' = r.bars
                /\ pc' = "done"
    /\ UNCHANGED <<data, ctx_size, bars, size, axes, drawn_ticks, closest_tick_size>>

Next == PaintAxes \/ PaintTicks \/ PaintCandles

Spec == Init /\ [][Next]_vars

TypeOK == pc \in {"idle", "ticks", "candles", "done", "panicked"}

(***************************************************************************)
(* Properties                                                              *)
(***************************************************************************)
LineFinite(l) == IsFinite(l.x0) /\ IsFinite(l.y0) /\ IsFinite(l.x1) /\ IsFinite(l.y1)

TickFinite(t) ==
    /\ LineFinite(t.tick_line)
    /\ IsFinite(t.label.position[1])
    /\ IsFinite(t.label.position[2])

CandleFinite(c) ==
    /\ LineFinite(c.wick)
    /\ IsFinite(c.body.origin[1])
    /\ IsFinite(c.body.origin[2])
    /\ IsFinite(c.body.size[1])
    /\ IsFinite(c.body.size[2])

TicksDone == pc \in {"candles", "done"}

\* C1: a paint pass over an empty bar sequence ends in a "no data" outcome
\* and never panics.
C1_EmptyBarsNeverPanic == (data = <<>>) => (pc # "panicked")

\* floor(n / d) of a finite value
Floor(a) == a.n \div a.d

\* C2: the number of visible bars never exceeds floor((w - 40 - 10) / 15),
\* a negative bound being read as zero.
C2_VisibleBarsBound ==
    (pc = "done") =>
        LET bound == Floor(FDiv(FSub(size.width, F(50)), F(15)))
        IN  Len(rendered) <= (IF bound < 0 THEN 0 ELSE bound)

\* C3: with a flat price range (highest = lowest) no coordinate of a tick or
\* of a candle is NaN or infinite.
C3_FlatRangeFiniteCoordinates ==
    (pc = "done" /\ FEq(price_range_used.highest, price_range_used.lowest)) =>
        /\ \A i \in 1..Len(drawn_ticks) : TickFinite(drawn_ticks[i])
        /\ \A i \in 1..Len(drawn_candles) : CandleFinite(drawn_candles[i])

\* C4: with bars to show and a canvas whose width or height is zero or
\* negative, the pass completes and draws no tick and no candle.
C4_DegenerateCanvasEmptyGeometry ==
    (bars # <<>> /\ (FLe(size.width, F(0)) \/ FLe(size.height, F(0)))) =>
        /\ pc # "panicked"
        /\ pc = "done" => (drawn_ticks = <<>> /\ drawn_candles = <<>>)

MinLow(bs) ==
    CHOOSE x \in {bs[i].low : i \in 1..Len(bs)} :
        \A j \in 1..Len(bs) : ~FLt(bs[j].low, x)

MaxHigh(bs) ==
    CHOOSE x \in {bs[i].high : i \in 1..Len(bs)} :
        \A j \in 1..Len(bs) : ~FGt(bs[j].high, x)

\* C5: with at least one visible bar, the price range used for the ticks
\* and for the candles is the minimum low and the maximum high over the
\* visible bars only.
C5_RangeOverVisibleBars ==
    (TicksDone /\ rendered # <<>>) =>
        /\ price_range_used.lowest = MinLow(rendered)
        /\ price_range_used.highest = MaxHigh(rendered)

\* a bar that is not visible lies outside the range of the visible ones
C5_Witness ==
    /\ pc = "done"
    /\ rendered # <<>>
    /\ \E i \in (Len(rendered) + 1)..Len(bars) :
          /\ FGt(bars[i].high, price_range_used.highest)
          /\ FLt(bars[i].low, price_range_used.lowest)

\* C6: the visible bars are the first k bars of the newest-first input in
\* reversed order, and the i-th candle from the left is the candle of the
\* i-th oldest of them.
C6_NewestPrefixOldestFirst ==
    (pc = "done") =>
        LET k == Len(rendered)
        IN  /\ k <= Len(bars)
            /\ \A i \in 1..k : rendered[i] = bars[k + 1 - i]
            /\ Len(drawn_candles) = k
            /\ \A i \in 1..k :
                  drawn_candles[i] =
                      Candle(price_range_used, scaling_of(price_range_used, size),
                             bars[k + 1 - i],
                             2 * BAR_SPACING + (i - 1) * (BAR_WIDTH + BAR_SPACING))

C6_Witness ==
    /\ pc = "done"
    /\ Len(rendered) = 2
    /\ Len(bars) = 3
    /\ bars[1] # bars[2]
    /\ drawn_candles[1].wick.x0 = F(10)
    /\ drawn_candles[2].wick.x0 = F(25)

TickDiff(i) ==
    FAbs(FSub(FDiv(range(price_range_used), Y_AXIS_TICK_INCREMENTS[i]),
              FDiv(size.height, F(Y_TICK_SPACING))))

\* C7: the chosen tick increment is the candidate whose tick count is
\* nearest to height / 50, the first such candidate on a tie; a price range
\* of 1.0 with a height of 200 chooses 0.5.
C7_NearestTickIncrement ==
    TicksDone =>
        /\ \E i \in 1..Len(Y_AXIS_TICK_INCREMENTS) :
              /\ closest_tick_size = Y_AXIS_TICK_INCREMENTS[i]
              /\ \A j \in 1..Len(Y_AXIS_TICK_INCREMENTS) : ~FLt(TickDiff(j), TickDiff(i))
              /\ \A j \in 1..(i - 1) : FGt(TickDiff(j), TickDiff(i))
        /\ (range(price_range_used) = F(1) /\ size.height = F(200))
              => closest_tick_size = Fin(1, 2)

C7_Witness ==
    /\ TicksDone
    /\ range(price_range_used) = F(1)
    /\ size.height = F(200)
    /\ closest_tick_size = Fin(1, 2)

\* C8: the tick prices are strictly decreasing in enumeration order and
\* every one of them lies within [lowest, highest].
C8_TicksDecreasingWithinRange ==
    TicksDone =>
        /\ \A i \in 1..Len(drawn_ticks) :
              /\ FLe(price_range_used.lowest, drawn_ticks[i].label.label)
              /\ FLe(drawn_ticks[i].label.label, price_range_used.highest)
        /\ \A i \in 1..(Len(drawn_ticks) - 1) :
              FLt(drawn_ticks[i + 1].label.label, drawn_ticks[i].label.label)

\* C9: a candle is green when close >= open, the tie close = open
\* included, and red when close < open.
C9_CandleColor ==
    (pc = "done") =>
        \A i \in 1..Len(drawn_candles) :
            /\ ~FLt(rendered[i].close, rendered[i].open) => drawn_candles[i].color = GREEN
            /\ FLt(rendered[i].close, rendered[i].open) => drawn_candles[i].color = RED

C9_Witness ==
    /\ pc = "done"
    /\ \E i \in 1..Len(drawn_candles) :
          /\ rendered[i].close = rendered[i].open
          /\ drawn_candles[i].color = GREEN
    /\ \E i \in 1..Len(drawn_candles) : drawn_candles[i].color = RED

\* C10: the right edge of every candle body is at most canvas.width - 40,
\* the x-coordinate of the y-axis line.
C10_CandlesLeftOfYAxis ==
    (pc = "done") =>
        \A i \in 1..Len(drawn_candles) :
            FLe(FAdd(drawn_candles[i].body.origin[1], drawn_candles[i].body.size[1]),
                axes[2].x0)

WellFormed(bar) ==
    /\ FLe(bar.low, bar.open) /\ FLe(bar.open, bar.high)
    /\ FLe(bar.low, bar.close) /\ FLe(bar.close, bar.high)

\* 0 <= y <= canvas.height - X_AXIS_LABELS_PADDING
InPlotBand(y) ==
    FLe(F(0), y) /\ FLe(y, FSub(size.height, F(X_AXIS_LABELS_PADDING)))

BodyTop(c) == c.body.origin[2]

BodyBottom(c) == FAdd(c.body.origin[2], c.body.size[2])

\* C11: with a canvas height above 20, at least one visible bar, a non-flat
\* price range and well-formed visible bars, every wick endpoint, body top,
\* body bottom and tick pixel offset lies in [0, canvas.height - 20], and
\* every candle body lies within its wick.
C11_CoordinatesInPlotBand ==
    (/\ pc = "done"
     /\ FGt(size.height, F(X_AXIS_LABELS_PADDING))
     /\ rendered # <<>>
     /\ ~FEq(price_range_used.highest, price_range_used.lowest)
     /\ \A i \in 1..Len(rendered) : WellFormed(rendered[i]))
    =>
        /\ \A i \in 1..Len(drawn_candles) :
              LET c == drawn_candles[i]
              IN  /\ InPlotBand(c.wick.y0)
                  /\ InPlotBand(c.wick.y1)
                  /\ InPlotBand(BodyTop(c))
                  /\ InPlotBand(BodyBottom(c))
                  /\ FLe(c.wick.y0, BodyTop(c))
                  /\ FLe(BodyBottom(c), c.wick.y1)
        /\ \A i \in 1..Len(drawn_ticks) : InPlotBand(drawn_ticks[i].tick_line.y0)

====
